---------------------------- MODULE Spec2Model ----------------------------
(***************************************************************************)
(* Model of the eye-file data layer (src/eye_file/data/db.py): the three   *)
(* tables of the store (categories, documents, notes) and the operations   *)
(* of db.py that read and write them through one SQLite connection.        *)
(*                                                                         *)
(* A table is a set of rows, a row is a record.  A nullable value is a     *)
(* sequence of length 0 (SQL NULL, Python None) or 1 (the value), so that  *)
(* NULL never compares equal to a value.  The state variable `last` is the *)
(* outcome of the most recent call of db.py: its name, its arguments and   *)
(* what it returned or raised.                                             *)
(***************************************************************************)
EXTENDS Integers, Sequences, FiniteSets

VARIABLES categories, documents, notes, last

vars == <<categories, documents, notes, last>>

---------------------------------------------------------------------------
(* Bounds of the model *)

\* largest number of category rows in the store the model starts from
MaxCats == 3
\* largest document id in the stores the default lookup is tried on
MaxDocs == 3
\* largest number of note rows insert_note may create
MaxNotes == 2

---------------------------------------------------------------------------
(* Values *)

\* SQL NULL / Python None
NULL == <<>>

Some(v) == <<v>>

\* SQL "a = b" on a nullable column a and a value b: never true of NULL
SqlEq(a, b) == a # NULL /\ a[1] = b

Max(S) == CHOOSE m \in S : \A x \in S : x <= m

Min(S) == CHOOSE m \in S : \A x \in S : m <= x

Ids(table) == {r.id : r \in table}

Row(table, id) == CHOOSE r \in table : r.id = id

\* ascending sequence of a finite set of integers (the rowid scan order)
RECURSIVE Ascending(_)
Ascending(S) ==
    IF S = {} THEN <<>>
    ELSE LET m == Min(S) IN <<m>> \o Ascending(S \ {m})

SeqToSet(s) == {s[i] : i \in DOMAIN s}

\* rowid the store gives the next inserted row of a table
NextRowId(table) == IF table = {} THEN 1 ELSE Max(Ids(table)) + 1

\* created_at DEFAULT of the notes table: the insertion time, never NULL
DefaultCreatedAt == Some("CURRENT_TIMESTAMP")

\* the foreign keys the schema declares on notes
NotesForeignKeysHold(docs, cats, document_id, category_id) ==
    /\ document_id \in Ids(docs)
    /\ category_id \in Ids(cats)

\* connect without the PRAGMA foreign_keys = ON
connect_NoPragma == [foreign_keys |-> FALSE, row_factory |-> "Row"]

\* the connection db.connect returns
connect == [foreign_keys |-> TRUE, row_factory |-> "Row"]

---------------------------------------------------------------------------
(* Inputs *)

\* name of the i-th category of a starting store
CategoryName(i) ==
    IF i = 1 THEN "All notes"
    ELSE IF i = 2 THEN "Reading"
    ELSE "Sub-reading"

PlaceholderDocument(id) ==
    [id |-> id, title |-> "(Placeholder) No document selected yet",
     authors |-> "", year |-> NULL, file_path |-> ""]

\* the note saved in every store: the field values of the round-trip example
ExampleDraft == [excerpt |-> "Test", body_md |-> "Body", page_ref |-> Some("p. 12")]

\* editor contents on_save_clicked lets through: excerpt or body_md is not
\* empty, page_ref is a text or None
Drafts ==
    { ExampleDraft,
      [excerpt |-> "",     body_md |-> "Body", page_ref |-> NULL],
      [excerpt |-> "Test", body_md |-> "",     page_ref |-> NULL] }

\* ids a caller may pass, existing or not
CategoryIdArgs == 1 .. (MaxCats + 1)

DocumentIdArgs == {1, 2}

NoteIdArgs == 1 .. (MaxNotes + 1)

\* parent chain of category id c in table cats, up to fuel steps
RECURSIVE Ancestors(_, _, _)
Ancestors(cats, c, fuel) ==
    IF fuel = 0 \/ c \notin Ids(cats) THEN {}
    ELSE LET p == Row(cats, c).parent_id
         IN IF p = NULL THEN {}
            ELSE {p[1]} \cup Ancestors(cats, p[1], fuel - 1)

\* a category table whose parent_id edges form a forest
IsForest(cats) ==
    \A c \in cats :
        /\ c.parent_id # NULL => c.parent_id[1] \in Ids(cats)
        /\ c.id \notin Ancestors(cats, c.id, Cardinality(cats))

\* the category tables with ids 1..k, k <= MaxCats, that are forests.  Rows
\* are inserted in rowid order and the foreign key on parent_id wants the
\* parent to exist, so a row's parent has a smaller id; every forest shape
\* has such a numbering.
CategoryTables ==
    UNION { { t \in { {[id |-> i, name |-> CategoryName(i), parent_id |-> par[i]]
                         : i \in 1 .. k}
                      : par \in [1 .. k -> {NULL} \cup {Some(j) : j \in 1 .. k}] }
              : IsForest(t) /\ \A c \in t : c.parent_id # NULL => c.parent_id[1] < c.id }
            : k \in 0 .. MaxCats }

\* the documents table before and after the placeholder row is seeded
DocumentTables == { {}, {PlaceholderDocument(1)} }

\* documents tables of a store that already holds documents, with any ids
\* up to MaxDocs (the lowest id need not be 1)
StoredDocumentTables == { {PlaceholderDocument(i) : i \in S} : S \in SUBSET (1 .. MaxDocs) }

---------------------------------------------------------------------------
(* Results of a call *)

Return(v) == [kind |-> "return", value |-> v]

Raise(exc) == [kind |-> "raise", value |-> exc]

Call(op, args, ret) == [op |-> op, args |-> args, ret |-> ret]

---------------------------------------------------------------------------
(* Operations of db.py, as functions of the tables they read *)

\* INSERT INTO categories (name, parent_id) VALUES (?, ?)
InsertCategory(cats, name, parent_id) ==
    cats \cup {[id |-> NextRowId(cats), name |-> name, parent_id |-> parent_id]}

\* ensure_default_categories giving the root its own id as parent_id
ensure_default_categories_SelfParent(cats) ==
    IF cats # {} THEN cats
    ELSE LET root_id == NextRowId(cats)
             t1 == InsertCategory(cats, "All notes", Some(root_id))
             t2 == InsertCategory(t1, "Reading", Some(root_id))
         IN InsertCategory(t2, "Ideas", Some(root_id))

\* ensure_default_categories without the emptiness check
ensure_default_categories_NoCheck(cats) ==
    LET root_id == NextRowId(cats)
        t1 == InsertCategory(cats, "All notes", NULL)
        t2 == InsertCategory(t1, "Reading", Some(root_id))
    IN InsertCategory(t2, "Ideas", Some(root_id))

\* ensure_default_categories reading lastrowid anew for each child
ensure_default_categories_LastRowId(cats) ==
    IF cats # {} THEN cats
    ELSE LET t1 == InsertCategory(cats, "All notes", NULL)
             t2 == InsertCategory(t1, "Reading", Some(Max(Ids(t1))))
         IN InsertCategory(t2, "Ideas", Some(Max(Ids(t2))))

ensure_default_categories(cats) ==
    IF cats # {} THEN cats
    ELSE LET root_id == NextRowId(cats)
             t1 == InsertCategory(cats, "All notes", NULL)
             t2 == InsertCategory(t1, "Reading", Some(root_id))
         IN InsertCategory(t2, "Ideas", Some(root_id))

\* the documents table after seed_minimal_data
SeedDocuments(docs) ==
    IF docs # {} THEN docs
    ELSE docs \cup {PlaceholderDocument(NextRowId(docs))}

seed_minimal_data(cats, docs) ==
    [categories |-> ensure_default_categories(cats),
     documents  |-> SeedDocuments(docs),
     ret        |-> Return(NULL)]

\* SELECT id FROM <table> ORDER BY id ASC LIMIT 1, then fetchone()
FirstId(table) == IF table = {} THEN NULL ELSE Some(Min(Ids(table)))

\* get_default_ids with ORDER BY id DESC: the newest rows instead of the first
get_default_ids_Newest(docs, cats) ==
    IF docs = {} \/ cats = {} THEN Raise("TypeError")
    ELSE Return(<<Max(Ids(docs)), Max(Ids(cats))>>)

\* get_default_ids falling back to id 0 when there is no category
get_default_ids_Fallback(docs, cats) ==
    LET doc_row == FirstId(docs)
        cat_row == FirstId(cats)
    IN IF doc_row = NULL THEN Raise("TypeError")
       ELSE IF cat_row = NULL THEN Return(<<doc_row[1], 0>>)
       ELSE Return(<<doc_row[1], cat_row[1]>>)

get_default_ids(docs, cats) ==
    LET doc_row == FirstId(docs)
        cat_row == FirstId(cats)
    IN IF doc_row = NULL THEN Raise("TypeError")
       ELSE IF cat_row = NULL THEN Raise("TypeError")
       ELSE Return(<<doc_row[1], cat_row[1]>>)

\* insert_note as INSERT OR REPLACE keyed on (document_id, category_id): a
\* note of the same document and category is overwritten
insert_note_Replace(conn, docs, cats, nts, document_id, category_id, excerpt, body_md, page_ref) ==
    IF conn.foreign_keys /\ ~NotesForeignKeysHold(docs, cats, document_id, category_id)
    THEN [notes |-> nts, ret |-> Raise("IntegrityError")]
    ELSE LET lastrowid == NextRowId(nts)
             kept == {n \in nts : ~(n.document_id = document_id /\ n.category_id = category_id)}
         IN [notes |-> kept \cup {[id          |-> lastrowid,
                                   document_id |-> document_id,
                                   category_id |-> category_id,
                                   excerpt     |-> excerpt,
                                   body_md     |-> body_md,
                                   page_ref    |-> page_ref,
                                   created_at  |-> DefaultCreatedAt]},
             ret   |-> Return(lastrowid)]

\* insert_note returning cur.rowcount (1 for the inserted row) as the id
insert_note_RowCount(conn, docs, cats, nts, document_id, category_id, excerpt, body_md, page_ref) ==
    IF conn.foreign_keys /\ ~NotesForeignKeysHold(docs, cats, document_id, category_id)
    THEN [notes |-> nts, ret |-> Raise("IntegrityError")]
    ELSE [notes |-> nts \cup {[id          |-> NextRowId(nts),
                               document_id |-> document_id,
                               category_id |-> category_id,
                               excerpt     |-> excerpt,
                               body_md     |-> body_md,
                               page_ref    |-> page_ref,
                               created_at  |-> DefaultCreatedAt]},
          ret   |-> Return(1)]

\* insert_note with excerpt and body_md bound to each other's column
insert_note_Swapped(conn, docs, cats, nts, document_id, category_id, excerpt, body_md, page_ref) ==
    IF conn.foreign_keys /\ ~NotesForeignKeysHold(docs, cats, document_id, category_id)
    THEN [notes |-> nts, ret |-> Raise("IntegrityError")]
    ELSE LET lastrowid == NextRowId(nts)
         IN [notes |-> nts \cup {[id          |-> lastrowid,
                                  document_id |-> document_id,
                                  category_id |-> category_id,
                                  excerpt     |-> body_md,
                                  body_md     |-> excerpt,
                                  page_ref    |-> page_ref,
                                  created_at  |-> DefaultCreatedAt]},
             ret   |-> Return(lastrowid)]

insert_note(conn, docs, cats, nts, document_id, category_id, excerpt, body_md, page_ref) ==
    IF conn.foreign_keys /\ ~NotesForeignKeysHold(docs, cats, document_id, category_id)
    THEN [notes |-> nts, ret |-> Raise("IntegrityError")]
    ELSE LET lastrowid == NextRowId(nts)
         IN [notes |-> nts \cup {[id          |-> lastrowid,
                                  document_id |-> document_id,
                                  category_id |-> category_id,
                                  excerpt     |-> excerpt,
                                  body_md     |-> body_md,
                                  page_ref    |-> page_ref,
                                  created_at  |-> DefaultCreatedAt]},
             ret   |-> Return(lastrowid)]

\* ids of the rows of categories c with c.parent_id = s, in rowid order
ChildIds(cats, s) == Ascending({c.id : c \in {x \in cats : SqlEq(x.parent_id, s)}})

\* the CTE without its recursion: the start row and its children only
SubtreeRows_OneLevel(cats, queue, out) ==
    IF queue = <<>> THEN out
    ELSE out \o queue \o ChildIds(cats, Head(queue))

\* the recursive step of the CTE: take a row off the queue, emit it, queue
\* the rows the recursive SELECT yields for it (UNION ALL: no row is dropped)
RECURSIVE SubtreeRows(_, _, _)
SubtreeRows(cats, queue, out) ==
    IF queue = <<>> THEN out
    ELSE LET s == Head(queue)
         IN SubtreeRows(cats, Tail(queue) \o ChildIds(cats, s), Append(out, s))

\* the CTE started from every category when the id is not a category
subtree_AllWhenUnknown(cats, category_id) ==
    IF category_id \in Ids(cats) THEN SubtreeRows(cats, <<category_id>>, <<>>)
    ELSE SubtreeRows(cats, Ascending(Ids(cats)), <<>>)

\* WITH RECURSIVE subtree(id) AS (SELECT ? UNION ALL SELECT c.id ...)
subtree(cats, category_id) == SubtreeRows(cats, <<category_id>>, <<>>)

\* ORDER BY n.id ASC
OrderByIdAsc(rows) ==
    LET ids == Ascending(Ids(rows))
    IN [i \in DOMAIN ids |-> Row(rows, ids[i])]

\* ORDER BY n.id DESC
RECURSIVE OrderByIdDesc(_)
OrderByIdDesc(rows) ==
    IF rows = {} THEN <<>>
    ELSE LET r == CHOOSE x \in rows : \A y \in rows : y.id <= x.id
         IN <<r>> \o OrderByIdDesc(rows \ {r})

ViewRow(n, c) ==
    [id |-> n.id, excerpt |-> n.excerpt, body_md |-> n.body_md,
     page_ref |-> n.page_ref, created_at |-> n.created_at,
     category_id |-> n.category_id, category_name |-> c.name]

\* the query filtering on the selected category alone
fetch_notes_for_category_subtree_NoSubtree(nts, cats, category_id) ==
    LET joined == {p \in nts \X cats : p[2].id = p[1].category_id}
        kept   == {p \in joined : p[1].category_id = category_id}
    IN Return(OrderByIdDesc({ViewRow(p[1], p[2]) : p \in kept}))

fetch_notes_for_category_subtree(nts, cats, category_id) ==
    LET sub    == SeqToSet(subtree(cats, category_id))
        joined == {p \in nts \X cats : p[2].id = p[1].category_id}
        kept   == {p \in joined : p[1].category_id \in sub}
    IN Return(OrderByIdDesc({ViewRow(p[1], p[2]) : p \in kept}))

\* fetch_note_by_id subscripting the row fetchone() returned
fetch_note_by_id_Subscript(nts, note_id) ==
    LET rows == {n \in nts : n.id = note_id}
    IN IF rows = {} THEN Raise("TypeError")
       ELSE Return(Some(Row(rows, Min(Ids(rows)))))

fetch_note_by_id(nts, note_id) ==
    LET rows == {n \in nts : n.id = note_id}
    IN IF rows = {} THEN Return(NULL)
       ELSE Return(Some(Row(rows, Min(Ids(rows)))))

---------------------------------------------------------------------------
(* The state machine: one action per call of db.py *)

Init ==
    /\ categories \in CategoryTables
    /\ documents \in DocumentTables
    /\ notes = {}
    /\ last = Call("connect", NULL, Return(NULL))

SeedMinimalData ==
    LET r == seed_minimal_data(categories, documents)
    IN /\ categories' = r.categories
       /\ documents' = r.documents
       /\ last' = Call("seed_minimal_data", NULL, r.ret)
       /\ UNCHANGED notes

GetDefaultIds ==
    /\ last' = Call("get_default_ids", NULL, get_default_ids(documents, categories))
    /\ UNCHANGED <<categories, documents, notes>>

\* insert_note called with any ids and a draft of the set D
InsertNoteFrom(D) ==
    \E d \in DocumentIdArgs, c \in CategoryIdArgs, draft \in D :
        LET r == insert_note(connect, documents, categories, notes, d, c,
                             draft.excerpt, draft.body_md, draft.page_ref)
        IN /\ Cardinality(r.notes) <= MaxNotes
           /\ notes' = r.notes
           /\ last' = Call("insert_note",
                           [document_id |-> d, category_id |-> c,
                            excerpt |-> draft.excerpt, body_md |-> draft.body_md,
                            page_ref |-> draft.page_ref],
                           r.ret)
           /\ UNCHANGED <<categories, documents>>

InsertNote == InsertNoteFrom({ExampleDraft})

InsertNoteDraft == InsertNoteFrom(Drafts)

FetchNotesForCategorySubtree ==
    \E c \in CategoryIdArgs :
        /\ last' = Call("fetch_notes_for_category_subtree", [category_id |-> c],
                        fetch_notes_for_category_subtree(notes, categories, c))
        /\ UNCHANGED <<categories, documents, notes>>

FetchNoteById ==
    \E n \in NoteIdArgs :
        /\ last' = Call("fetch_note_by_id", [note_id |-> n], fetch_note_by_id(notes, n))
        /\ UNCHANGED <<categories, documents, notes>>

Next ==
    \/ SeedMinimalData
    \/ GetDefaultIds
    \/ InsertNote
    \/ FetchNotesForCategorySubtree
    \/ FetchNoteById

Spec == Init /\ [][Next]_vars

\* the store right after init_db on a new file: three empty tables
InitFresh ==
    /\ categories = {}
    /\ documents = {}
    /\ notes = {}
    /\ last = Call("connect", NULL, Return(NULL))

NextFresh ==
    \/ SeedMinimalData
    \/ GetDefaultIds
    \/ InsertNoteDraft
    \/ FetchNotesForCategorySubtree
    \/ FetchNoteById

SpecFresh == InitFresh /\ [][NextFresh]_vars

\* a store with any documents, on which only seeding and the default lookup run
InitLookup ==
    /\ categories \in CategoryTables
    /\ documents \in StoredDocumentTables
    /\ notes = {}
    /\ last = Call("connect", NULL, Return(NULL))

NextLookup ==
    \/ SeedMinimalData
    \/ GetDefaultIds

SpecLookup == InitLookup /\ [][NextLookup]_vars

---------------------------------------------------------------------------
(* Properties *)

\* the categories below R: those with R on their chain of parents
Descendants(cats, R) ==
    {c.id : c \in {x \in cats : R \in Ancestors(cats, x.id, Cardinality(cats))}}

FetchedSubtree == last.op = "fetch_notes_for_category_subtree"

\* C1: the ids the recursive expansion yields for a start id R are R itself
\* together with exactly the categories that have R among their ancestors.
C1_SubtreeClosure ==
    FetchedSubtree =>
        LET R == last.args.category_id
        IN SeqToSet(subtree(categories, R)) = {R} \cup Descendants(categories, R)

\* a subtree of depth two was expanded: a category below a child of the
\* start id is among the ids
C1_Witness ==
    /\ FetchedSubtree
    /\ \E c \in categories :
          /\ c.parent_id # NULL
          /\ c.parent_id[1] # last.args.category_id
          /\ last.args.category_id \in Ancestors(categories, c.id, Cardinality(categories))
          /\ c.id \in SeqToSet(subtree(categories, last.args.category_id))

\* C2: the rows fetched for category C are the notes whose category is C or
\* a descendant of C, each of them once, and no other note.
C2_SubtreeFiltering ==
    FetchedSubtree =>
        LET C == last.args.category_id
            rows == last.ret.value
            expected == {n \in notes : n.category_id \in {C} \cup Descendants(categories, C)}
        IN /\ last.ret.kind = "return"
           /\ Len(rows) = Cardinality(expected)
           /\ {rows[i].id : i \in DOMAIN rows} = Ids(expected)

\* the fetch returned a note of a proper descendant and left out a note of a
\* category outside the subtree
C2_Witness ==
    /\ FetchedSubtree
    /\ Len(last.ret.value) = 1
    /\ last.ret.value[1].category_id # last.args.category_id
    /\ Cardinality(notes) = 2

\* C3: the rows fetched for a category are in strictly descending id order.
C3_DescendingOrder ==
    FetchedSubtree =>
        \A i \in 1 .. (Len(last.ret.value) - 1) :
            last.ret.value[i].id > last.ret.value[i + 1].id

\* two notes of different categories of the subtree were fetched
C3_Witness ==
    /\ FetchedSubtree
    /\ Len(last.ret.value) = 2
    /\ last.ret.value[1].category_id # last.ret.value[2].category_id

\* a step that is a call of insert_note with a dangling document or category
C4_DanglingInsert ==
    /\ last'.op = "insert_note"
    /\ \/ last'.args.category_id \notin Ids(categories)
       \/ last'.args.document_id \notin Ids(documents)

\* C4: insert_note with a category_id or document_id that references no row
\* raises the constraint error (sqlite3.IntegrityError) and leaves the notes
\* table as it was.
C4_ReferentialIntegrity ==
    [][C4_DanglingInsert => /\ last'.ret = Raise("IntegrityError")
                            /\ notes' = notes]_vars

\* an insert with an unknown category was rejected in a store that holds a note
C4_Witness ==
    /\ last.op = "insert_note"
    /\ last.ret.kind = "raise"
    /\ last.args.category_id \notin Ids(categories)
    /\ last.args.document_id \in Ids(documents)
    /\ notes # {}

\* C5: a call of seed_minimal_data right after another one changes no row;
\* and in any call a table that is not empty is left as it is and a table
\* that is empty is filled, whatever the other table holds.
C5_IdempotentSeeding ==
    [][last'.op = "seed_minimal_data" =>
          /\ last.op = "seed_minimal_data" =>
                 categories' = categories /\ documents' = documents
          /\ categories # {} => categories' = categories
          /\ documents # {} => documents' = documents
          /\ categories = {} => categories' # {}
          /\ documents = {} => documents' # {}]_vars

\* seeding has run on a partially seeded store: the root category alone
C5_Witness ==
    /\ last.op = "seed_minimal_data"
    /\ Cardinality(categories) = 1
    /\ Cardinality(documents) = 1

\* a successful insert_note followed by fetch_note_by_id of the id it returned
C6_RoundTripStep ==
    /\ last.op = "insert_note"
    /\ last.ret.kind = "return"
    /\ last'.op = "fetch_note_by_id"
    /\ last'.args.note_id = last.ret.value

\* C6: fetch_note_by_id of the id a successful insert_note returned yields a
\* row with that id, the inserted excerpt, body_md, page_ref and category_id,
\* and a created_at that is not null.
C6_InsertFetchRoundTrip ==
    [][C6_RoundTripStep =>
          /\ last'.ret.kind = "return"
          /\ last'.ret.value # NULL
          /\ LET row == last'.ret.value[1]
             IN /\ row.id = last.ret.value
                /\ row.excerpt = last.args.excerpt
                /\ row.body_md = last.args.body_md
                /\ row.page_ref = last.args.page_ref
                /\ row.category_id = last.args.category_id
                /\ row.created_at # NULL]_vars

\* the example note was fetched back: "Test", "Body", "p. 12" under category 2
C6_Witness ==
    /\ last.op = "fetch_note_by_id"
    /\ last.ret.kind = "return"
    /\ last.ret.value # NULL
    /\ last.ret.value[1].excerpt = "Test"
    /\ last.ret.value[1].body_md = "Body"
    /\ last.ret.value[1].page_ref = Some("p. 12")
    /\ last.ret.value[1].category_id = 2

\* C7: fetch_note_by_id of an id no note has returns None, raises nothing
\* and changes no table.
C7_AbsentFetch ==
    [][(last'.op = "fetch_note_by_id" /\ last'.args.note_id \notin Ids(notes)) =>
          /\ last'.ret = Return(NULL)
          /\ UNCHANGED <<categories, documents, notes>>]_vars

\* an id that was never inserted was looked up in a store that holds notes
C7_Witness ==
    /\ last.op = "fetch_note_by_id"
    /\ last.args.note_id \notin Ids(notes)
    /\ last.ret = Return(NULL)
    /\ notes # {}

\* C8: get_default_ids raises (the TypeError of subscripting None, which is
\* the not-seeded failure) whenever documents or categories is empty.
C8_NotSeeded ==
    (last.op = "get_default_ids" /\ (documents = {} \/ categories = {})) =>
        last.ret = Raise("TypeError")

\* the lookup failed on the categories table alone
C8_Witness ==
    /\ last.op = "get_default_ids"
    /\ last.ret.kind = "raise"
    /\ documents # {}
    /\ categories = {}

\* C9: the fetch for an id that is no category returns no row and raises
\* nothing.
C9_UnknownCategory ==
    (FetchedSubtree /\ last.args.category_id \notin Ids(categories)) =>
        /\ last.ret.kind = "return"
        /\ last.ret.value = <<>>

\* an unknown id was queried in a store that holds categories and notes
C9_Witness ==
    /\ FetchedSubtree
    /\ last.args.category_id \notin Ids(categories)
    /\ last.ret.kind = "return"
    /\ categories # {}
    /\ notes # {}

\* C10: seed_minimal_data on an empty categories table leaves exactly three
\* rows: a root "All notes" without parent, and "Reading" and "Ideas" whose
\* parent_id is the id of that root.
C10_SeededTree ==
    [][(last'.op = "seed_minimal_data" /\ categories = {}) =>
          /\ Cardinality(categories') = 3
          /\ \E root \in categories', reading \in categories', ideas \in categories' :
                /\ categories' = {root, reading, ideas}
                /\ root.name = "All notes" /\ root.parent_id = NULL
                /\ reading.name = "Reading" /\ reading.parent_id = Some(root.id)
                /\ ideas.name = "Ideas" /\ ideas.parent_id = Some(root.id)]_vars

\* the seeded tree is in the store: "Ideas" is a name only seeding gives
C10_Witness ==
    /\ last.op = "seed_minimal_data"
    /\ \E c \in categories : c.name = "Ideas"

\* C11: with both tables non-empty get_default_ids returns the pair of the
\* lowest document id and the lowest category id of the store; when the
\* categories are the seeded tree, that category is the root "All notes".
C11_LowestIds ==
    (last.op = "get_default_ids" /\ documents # {} /\ categories # {}) =>
        /\ last.ret.kind = "return"
        /\ LET d == last.ret.value[1]
               c == last.ret.value[2]
           IN /\ d \in Ids(documents) /\ \A x \in documents : d <= x.id
              /\ c \in Ids(categories) /\ \A x \in categories : c <= x.id
              /\ (\E x \in categories : x.name = "Ideas") =>
                    \E root \in categories :
                        /\ root.id = c
                        /\ root.name = "All notes"
                        /\ root.parent_id = NULL

\* the lookup ran on the seeded tree and on documents whose lowest id is not
\* their only id
C11_Witness ==
    /\ last.op = "get_default_ids"
    /\ last.ret.kind = "return"
    /\ \E x \in categories : x.name = "Ideas"
    /\ Cardinality(documents) >= 2
    /\ last.ret.value[1] = 2

\* a step in which insert_note succeeds
C12_InsertStep ==
    /\ last'.op = "insert_note"
    /\ last'.ret.kind = "return"

\* a successful insert_note for category C followed by the fetch for C or
\* for an ancestor of C
C12_RefreshStep ==
    /\ last.op = "insert_note"
    /\ last.ret.kind = "return"
    /\ last'.op = "fetch_notes_for_category_subtree"
    /\ last'.args.category_id \in
          {last.args.category_id}
             \cup Ancestors(categories, last.args.category_id, Cardinality(categories))

\* C12: the id a successful insert_note returns is greater than every note id
\* the store held before, and the next fetch for the note's category or for
\* any ancestor of it returns the new note as its first row.
C12_NewestFirst ==
    [][/\ C12_InsertStep => \A n \in notes : last'.ret.value > n.id
       /\ C12_RefreshStep =>
             /\ last'.ret.kind = "return"
             /\ Len(last'.ret.value) >= 1
             /\ last'.ret.value[1].id = last.ret.value
             /\ last'.ret.value[1].category_id = last.args.category_id]_vars

\* the fetch for the grandparent of the newest note's category has that note
\* first, ahead of an older note
C12_Witness ==
    /\ FetchedSubtree
    /\ Len(last.ret.value) = 2
    /\ last.ret.value[1].id = Max(Ids(notes))
    /\ \E c \in categories :
          /\ c.id = last.ret.value[1].category_id
          /\ c.parent_id # NULL
          /\ c.parent_id[1] # last.args.category_id
          /\ last.args.category_id \in Ancestors(categories, c.id, Cardinality(categories))

\* C13: no call changes or removes a note the store holds; a successful
\* insert_note adds exactly one note row and leaves the categories and the
\* documents as they were; every other call (seeding, the fetches, the
\* default lookup, a rejected insert) leaves the notes table as it was.
C13_NotesImmutable ==
    [][/\ notes \subseteq notes'
       /\ (last'.op = "insert_note" /\ last'.ret.kind = "return") =>
             /\ Cardinality(notes' \ notes) = 1
             /\ \E n \in notes' \ notes : n.id = last'.ret.value
             /\ categories' = categories
             /\ documents' = documents
       /\ ~(last'.op = "insert_note" /\ last'.ret.kind = "return") =>
             notes' = notes]_vars

\* a second note went into the category and document of an earlier one, and
\* both are in the store
C13_Witness ==
    /\ last.op = "insert_note"
    /\ last.ret.kind = "return"
    /\ \E a \in notes, b \in notes :
          /\ a.id < b.id
          /\ b.id = last.ret.value
          /\ a.category_id = b.category_id
          /\ a.document_id = b.document_id
          /\ a.excerpt # b.excerpt

\* C14: in every store reached from the empty one the categories are a
\* forest (a parent_id that is not null is the id of a category, and no
\* category is among its own ancestors) and every note's category_id and
\* document_id are ids of rows of the store.
C14_ForestAndReferences ==
    /\ \A c \in categories :
          /\ c.parent_id # NULL => \E p \in categories : p.id = c.parent_id[1]
          /\ c.parent_id # Some(c.id)
          /\ c.id \notin Ancestors(categories, c.id, Cardinality(categories))
    /\ \A n \in notes :
          /\ \E c \in categories : c.id = n.category_id
          /\ \E d \in documents : d.id = n.document_id

\* the seeded tree holds notes under the root and under a child
C14_Witness ==
    /\ Cardinality(categories) = 3
    /\ \E c \in categories : c.parent_id # NULL
    /\ \E a \in notes, b \in notes :
          /\ Row(categories, a.category_id).parent_id = NULL
          /\ Row(categories, b.category_id).parent_id # NULL

=============================================================================
